---- MODULE Spec2Model ----
(***************************************************************************)
(* Model of password_checker.py: the scoring function score_password and   *)
(* the sub-scorers it is composed of.                                      *)
(*                                                                         *)
(* A password is a sequence of characters; a character is a one-character  *)
(* string, except the characters outside ASCII, which are written by their *)
(* code point ("U+00E9").  The label strings are the source's without the  *)
(* trailing emoji, and entropy_bits is held in tenths of a bit.            *)
(***************************************************************************)
EXTENDS Integers, Sequences, FiniteSets

VARIABLES pw, pc, result

vars == <<pw, pc, result>>

(***************************************************************************)
(* Bounds of the checked input space.                                      *)
(***************************************************************************)
MaxLen == 4
MaxFrags == 2

(***************************************************************************)
(* Characters and Python's str predicates on them.                         *)
(***************************************************************************)
lowers == <<"a", "b", "c", "d", "e", "f", "g", "h", "i", "j", "k", "l", "m",
            "n", "o", "p", "q", "r", "s", "t", "u", "v", "w", "x", "y", "z">>

uppers == <<"A", "B", "C", "D", "E", "F", "G", "H", "I", "J", "K", "L", "M",
            "N", "O", "P", "Q", "R", "S", "T", "U", "V", "W", "X", "Y", "Z">>

digits == <<"0", "1", "2", "3", "4", "5", "6", "7", "8", "9">>

\* Characters written by code point: the grave accent of SYMBOLS, and three
\* characters outside the ASCII letter, digit and symbol sets.
backtick == "U+0060"  \* GRAVE ACCENT
eacute == "U+00E9"    \* LATIN SMALL LETTER E WITH ACUTE
arabic3 == "U+0663"   \* ARABIC-INDIC DIGIT THREE
space == " "

\* SYMBOLS is a raw string literal written with regex-style escapes, so every
\* backslash written in it is a character of it (37 characters, 32 distinct).
SYMBOLS == <<"!", "@", "#", "$", "%", "^", "&", "*", "(", ")", "_", "+", "\\",
             "-", "=", "\\", "[", "\\", "]", "{", "}", ";", "'", ":", "\\",
             "\"", ",", ".", "<", ">", "/", "?", "\\", "\\", "|", backtick, "~">>

Range(s) == {s[i] : i \in DOMAIN s}

Reverse(s) == [i \in 1..Len(s) |-> s[Len(s) + 1 - i]]

\* The characters for which str.islower, str.isupper and str.isdigit hold
\* (all three are Unicode-aware).
lower_chars == Range(lowers) \cup {eacute}

upper_chars == Range(uppers)

digit_chars == Range(digits) \cup {arabic3}

symbol_chars == Range(SYMBOLS)

islower(c) == c \in lower_chars

isupper(c) == c \in upper_chars

isdigit(c) == c \in digit_chars

\* c in SYMBOLS
in_SYMBOLS(c) == c \in symbol_chars

\* str.lower of one character, and of a string.
lower_map == [c \in Range(uppers) |->
                 lowers[CHOOSE i \in DOMAIN uppers : uppers[i] = c]]

lower_char(c) == IF c \in DOMAIN lower_map THEN lower_map[c] ELSE c

lower(s) == [i \in 1..Len(s) |-> lower_char(s[i])]

\* pat in s, for strings
Contains(s, pat) ==
    \E j \in 1..(Len(s) - Len(pat) + 1) :
        \A t \in 1..Len(pat) : s[j + t - 1] = pat[t]

Min(a, b) == IF a <= b THEN a ELSE b

Max(a, b) == IF a >= b THEN a ELSE b

(***************************************************************************)
(* The sub-scorers.                                                        *)
(***************************************************************************)
\* score_length with its first threshold off by one (len(pw) > 16).
score_length_off_by_one(s) ==
    IF Len(s) > 16 THEN 30
    ELSE IF Len(s) >= 12 THEN 20
    ELSE IF Len(s) >= 8 THEN 10
    ELSE Max(0, Len(s) - 4)

score_length(s) ==
    IF Len(s) >= 16 THEN 30
    ELSE IF Len(s) >= 12 THEN 20
    ELSE IF Len(s) >= 8 THEN 10
    ELSE Max(0, Len(s) - 4)

has_lower(s) == \E i \in DOMAIN s : islower(s[i])

has_upper(s) == \E i \in DOMAIN s : isupper(s[i])

has_digit(s) == \E i \in DOMAIN s : isdigit(s[i])

has_symbol(s) == \E i \in DOMAIN s : in_SYMBOLS(s[i])

Bool(b) == IF b THEN 1 ELSE 0

kinds(s) == Bool(has_lower(s)) + Bool(has_upper(s)) + Bool(has_digit(s))
            + Bool(has_symbol(s))

variety_table == <<0, 10, 18, 24, 30>>

\* score_variety as a linear formula instead of the table.
score_variety_linear(s) == 10 * kinds(s)

score_variety(s) == variety_table[kinds(s) + 1]

\* The loop of penalty_repeats over i = 1 .. len(pw)-1 (here i+1), and the
\* statement after it that closes the trailing streak.
RECURSIVE run_loop(_, _, _, _)
run_loop(s, i, streak, penalty) ==
    IF i > Len(s)
    THEN IF streak >= 3 THEN penalty + 2 * (streak - 2) ELSE penalty
    ELSE IF s[i] = s[i - 1]
         THEN run_loop(s, i + 1, streak + 1, penalty)
         ELSE IF streak >= 3
              THEN run_loop(s, i + 1, 1, penalty + 2 * (streak - 2))
              ELSE run_loop(s, i + 1, 1, penalty)

\* The loop of penalty_repeats without the statement that closes the trailing
\* streak.
RECURSIVE run_loop_open(_, _, _, _)
run_loop_open(s, i, streak, penalty) ==
    IF i > Len(s) THEN penalty
    ELSE IF s[i] = s[i - 1]
         THEN run_loop_open(s, i + 1, streak + 1, penalty)
         ELSE IF streak >= 3
              THEN run_loop_open(s, i + 1, 1, penalty + 2 * (streak - 2))
              ELSE run_loop_open(s, i + 1, 1, penalty)

run_penalty_no_trailing(s) == run_loop_open(s, 2, 1, 0)

run_penalty(s) == run_loop(s, 2, 1, 0)

\* Counter(pw).most_common(1)[0][1], for a non-empty string.
most_common_count(s) ==
    LET count(c) == Cardinality({i \in DOMAIN s : s[i] = c})
    IN  CHOOSE n \in 1..Len(s) :
            /\ \E c \in Range(s) : count(c) = n
            /\ \A c \in Range(s) : count(c) <= n

\* The frequency-skew block: most / len(pw) > 0.4 adds 5.  It sits under
\* "if pw:", which keeps most_common(1)[0] and the division away from the
\* empty string.
frequency_skew_unguarded(s) ==
    IF Len(s) = 0
    THEN [raised |-> "IndexError", penalty |-> 0]
    ELSE [raised |-> "none",
          penalty |-> IF 10 * most_common_count(s) > 4 * Len(s) THEN 5 ELSE 0]

frequency_skew(s) ==
    IF Len(s) > 0
    THEN [raised |-> "none",
          penalty |-> IF 10 * most_common_count(s) > 4 * Len(s) THEN 5 ELSE 0]
    ELSE [raised |-> "none", penalty |-> 0]

penalty_repeats(s) == Min(run_penalty(s) + frequency_skew(s).penalty, 20)

\* seqs without the reversed variants.
seqs_forward_only == <<lowers, uppers, digits>>

seqs == <<lowers, uppers, digits, Reverse(lowers), Reverse(uppers), Reverse(digits)>>

\* The three nested loops of penalty_sequences, innermost first: i over
\* range(0, len(s) - k + 1) (here i+1), adding 3 for every slice s[i:i+k] that
\* is in pw_low; k over range(4, 8); s over seqs (index si).  Each loop yields
\* what its iterations add to penalty.
RECURSIVE seq_i_loop(_, _, _, _)
seq_i_loop(pw_low, s, k, i) ==
    IF i > Len(s) - k + 1 THEN 0
    ELSE (IF Contains(pw_low, SubSeq(s, i, i + k - 1)) THEN 3 ELSE 0)
         + seq_i_loop(pw_low, s, k, i + 1)

RECURSIVE seq_k_loop(_, _, _)
seq_k_loop(pw_low, s, k) ==
    IF k >= 8 THEN 0
    ELSE seq_i_loop(pw_low, s, k, 1) + seq_k_loop(pw_low, s, k + 1)

RECURSIVE seq_loop(_, _)
seq_loop(pw_low, si) ==
    IF si > Len(seqs) THEN 0
    ELSE seq_k_loop(pw_low, seqs[si], 4) + seq_loop(pw_low, si + 1)

\* penalty_sequences without the cap.
penalty_sequences_uncapped(s) == seq_loop(lower(s), 1)

penalty_sequences(s) == Min(seq_loop(lower(s), 1), 12)

COMMON_PATTERNS == <<
    <<"p", "a", "s", "s", "w", "o", "r", "d">>,
    <<"q", "w", "e", "r", "t", "y">>,
    <<"a", "b", "c">>,
    <<"a", "b", "c", "d">>,
    <<"a", "b", "c", "1", "2", "3">>,
    <<"l", "e", "t", "m", "e", "i", "n">>,
    <<"a", "d", "m", "i", "n">>,
    <<"w", "e", "l", "c", "o", "m", "e">>,
    <<"i", "l", "o", "v", "e", "y", "o", "u">>,
    <<"d", "r", "a", "g", "o", "n">>,
    <<"m", "o", "n", "k", "e", "y">>,
    <<"f", "o", "o", "t", "b", "a", "l", "l">>,
    <<"b", "a", "s", "e", "b", "a", "l", "l">>,
    <<"1", "2", "3">>,
    <<"1", "2", "3", "4">>,
    <<"1", "2", "3", "4", "5">>,
    <<"1", "2", "3", "4", "5", "6">>,
    <<"0", "0", "0", "0">>,
    <<"1", "1", "1", "1">>,
    <<"2", "2", "2", "2">> >>

keyboard_rows == <<
    <<"q", "w", "e", "r", "t", "y">>,
    <<"a", "s", "d", "f">>,
    <<"z", "x", "c", "v">>,
    <<"1", "q", "2", "w", "3", "e">>,
    <<"q", "a", "z">>,
    <<"w", "a", "s", "d">> >>

\* The loop over COMMON_PATTERNS adding 6 for every occurrence of pat in pw_low.
Occurrences(s, pat) ==
    Cardinality({j \in 1..(Len(s) - Len(pat) + 1) :
                    \A k \in 1..Len(pat) : s[j + k - 1] = pat[k]})

RECURSIVE common_loop_per_occurrence(_, _, _)
common_loop_per_occurrence(pw_low, n, pen) ==
    IF n > Len(COMMON_PATTERNS) THEN pen
    ELSE common_loop_per_occurrence(
             pw_low, n + 1, pen + 6 * Occurrences(pw_low, COMMON_PATTERNS[n]))

\* for pat in COMMON_PATTERNS: if pat in pw_low: pen += 6
RECURSIVE common_loop(_, _, _)
common_loop(pw_low, n, pen) ==
    IF n > Len(COMMON_PATTERNS) THEN pen
    ELSE IF Contains(pw_low, COMMON_PATTERNS[n])
         THEN common_loop(pw_low, n + 1, pen + 6)
         ELSE common_loop(pw_low, n + 1, pen)

\* for row in keyboard_rows: if row in pw_low or row[::-1] in pw_low: pen += 6
RECURSIVE rows_loop(_, _, _)
rows_loop(pw_low, n, pen) ==
    IF n > Len(keyboard_rows) THEN pen
    ELSE IF \/ Contains(pw_low, keyboard_rows[n])
            \/ Contains(pw_low, Reverse(keyboard_rows[n]))
         THEN rows_loop(pw_low, n + 1, pen + 6)
         ELSE rows_loop(pw_low, n + 1, pen)

\* The classes of Python's re on str: \d is any Unicode decimal digit, \w any
\* Unicode alphanumeric or the underscore; [1-9] and the like are code-point
\* ranges.
re_digit_chars == Range(digits) \cup {arabic3}

re_word_chars == Range(lowers) \cup Range(uppers) \cup Range(digits)
                     \cup {"_", eacute, arabic3}

re_digit(c) == c \in re_digit_chars

re_word(c) == c \in re_word_chars

\* \b before position p (1 .. len+1): exactly one side is a word character.
re_boundary(s, p) ==
    LET before == p > 1 /\ re_word(s[p - 1])
        after == p <= Len(s) /\ re_word(s[p])
    IN  before # after

\* re.search(r"(19|20)\d{2}", pw_low)
year_match(s) ==
    \E j \in 1..(Len(s) - 3) :
        /\ <<s[j], s[j + 1]>> \in {<<"1", "9">>, <<"2", "0">>}
        /\ re_digit(s[j + 2])
        /\ re_digit(s[j + 3])

\* (0?[1-9]|1[0-2]) matched by s[a..b]
re_month(s, a, b) ==
    \/ b = a /\ s[a] \in {"1", "2", "3", "4", "5", "6", "7", "8", "9"}
    \/ b = a + 1 /\ s[a] = "0"
                 /\ s[b] \in {"1", "2", "3", "4", "5", "6", "7", "8", "9"}
    \/ b = a + 1 /\ s[a] = "1" /\ s[b] \in {"0", "1", "2"}

\* (0?[1-9]|[12]\d|3[01]) matched by s[a..b]
re_day(s, a, b) ==
    \/ b = a /\ s[a] \in {"1", "2", "3", "4", "5", "6", "7", "8", "9"}
    \/ b = a + 1 /\ s[a] = "0"
                 /\ s[b] \in {"1", "2", "3", "4", "5", "6", "7", "8", "9"}
    \/ b = a + 1 /\ s[a] \in {"1", "2"} /\ re_digit(s[b])
    \/ b = a + 1 /\ s[a] = "3" /\ s[b] \in {"0", "1"}

\* re.search(r"\b(0?[1-9]|1[0-2])[-/\.]?(0?[1-9]|[12]\d|3[01])\b", pw_low):
\* a match is a month of m characters from position a, a separator of sp
\* characters, a day of d characters, with a word boundary at both ends.
date_match(s) ==
    \E a \in 1..Len(s) : \E m \in 1..2 : \E sp \in 0..1 : \E d \in 1..2 :
        /\ a + m + sp + d - 1 <= Len(s)
        /\ re_boundary(s, a)
        /\ re_month(s, a, a + m - 1)
        /\ sp = 1 => s[a + m] \in {"-", "/", "."}
        /\ re_day(s, a + m + sp, a + m + sp + d - 1)
        /\ re_boundary(s, a + m + sp + d)

penalty_common_patterns(s) ==
    LET pw_low == lower(s)
        pen1 == common_loop(pw_low, 1, 0)
        pen2 == rows_loop(pw_low, 1, pen1)
        pen3 == IF year_match(pw_low) THEN pen2 + 5 ELSE pen2
        pen4 == IF date_match(pw_low) THEN pen3 + 5 ELSE pen3
    IN  Min(pen4, 20)

bonus_strong_mix(s) ==
    IF Len(s) >= 14 /\ score_variety(s) >= 24 THEN 10 ELSE 0

\* The character-set size estimate_entropy_bits adds up.
charset(s) ==
    (IF has_lower(s) THEN 26 ELSE 0)
    + (IF has_upper(s) THEN 26 ELSE 0)
    + (IF has_digit(s) THEN 10 ELSE 0)
    + (IF has_symbol(s) THEN Len(SYMBOLS) ELSE 0)

\* math.log2 in millionths of a bit, rounded to nearest, of the character-set
\* sizes that sums of 26, 26, 10 and a symbol-set size of 32 or 37 can take.
log2_micro(n) ==
    CASE n = 10 -> 3321928 [] n = 26 -> 4700440 [] n = 32 -> 5000000
      [] n = 36 -> 5169925 [] n = 37 -> 5209453 [] n = 42 -> 5392317
      [] n = 47 -> 5554589 [] n = 52 -> 5700440 [] n = 58 -> 5857981
      [] n = 62 -> 5954196 [] n = 63 -> 5977280 [] n = 68 -> 6087463
      [] n = 73 -> 6189825 [] n = 84 -> 6392317 [] n = 89 -> 6475733
      [] n = 94 -> 6554589 [] n = 99 -> 6629357

\* round(n * log2(size), 1), in tenths of a bit.
entropy_of(n, size) ==
    IF size = 0 THEN 0 ELSE (n * log2_micro(size) + 50000) \div 100000

estimate_entropy_bits(s) == entropy_of(Len(s), charset(s))

strength_label(score) ==
    IF score >= 85 THEN "Very Strong"
    ELSE IF score >= 70 THEN "Strong"
    ELSE IF score >= 55 THEN "Medium"
    ELSE IF score >= 35 THEN "Weak"
    ELSE "Very Weak"

TipLength == "Use at least 12 characters."
TipLower == "Add lowercase letters."
TipUpper == "Add uppercase letters."
TipDigit == "Add digits."
TipSymbol == "Add symbols."
TipRepeats == "Avoid long repeats like 'aaa' or '!!!!'."
TipSequences == "Avoid sequences like 'abcd' or '1234'."
TipPatterns == "Avoid common words, keyboard rows, or dates."
TipPassphrase == "Nice! Consider a passphrase: 3-4 random words with a symbol."

\* t.append(tip) under its condition
AppendIf(t, cond, tip) == IF cond THEN Append(t, tip) ELSE t

\* tips with the sequence warning appended ahead of the repeat warning.
tips_reordered(s) ==
    LET t1 == AppendIf(<<>>, Len(s) < 12, TipLength)
        t2 == AppendIf(t1, ~has_lower(s), TipLower)
        t3 == AppendIf(t2, ~has_upper(s), TipUpper)
        t4 == AppendIf(t3, ~has_digit(s), TipDigit)
        t5 == AppendIf(t4, ~has_symbol(s), TipSymbol)
        t6 == AppendIf(t5, penalty_sequences(s) > 0, TipSequences)
        t7 == AppendIf(t6, penalty_repeats(s) > 0, TipRepeats)
        t8 == AppendIf(t7, penalty_common_patterns(s) > 0, TipPatterns)
    IN  IF Len(t8) = 0 THEN Append(t8, TipPassphrase) ELSE t8

tips(s) ==
    LET t1 == AppendIf(<<>>, Len(s) < 12, TipLength)
        t2 == AppendIf(t1, ~has_lower(s), TipLower)
        t3 == AppendIf(t2, ~has_upper(s), TipUpper)
        t4 == AppendIf(t3, ~has_digit(s), TipDigit)
        t5 == AppendIf(t4, ~has_symbol(s), TipSymbol)
        t6 == AppendIf(t5, penalty_repeats(s) > 0, TipRepeats)
        t7 == AppendIf(t6, penalty_sequences(s) > 0, TipSequences)
        t8 == AppendIf(t7, penalty_common_patterns(s) > 0, TipPatterns)
    IN  IF Len(t8) = 0 THEN Append(t8, TipPassphrase) ELSE t8

score_password(s) ==
    LET s_len == score_length(s)
        s_var == score_variety(s)
        p_rep == penalty_repeats(s)
        p_seq == penalty_sequences(s)
        p_pat == penalty_common_patterns(s)
        bonus == bonus_strong_mix(s)
        raw == s_len + s_var + bonus - (p_rep + p_seq + p_pat)
        score == Max(0, Min(100, raw))
    IN  [raised |-> frequency_skew(s).raised,
         score |-> score,
         label |-> strength_label(score),
         entropy_bits |-> estimate_entropy_bits(s),
         breakdown |-> [length |-> s_len, variety |-> s_var, bonus |-> bonus,
                        penalty_repeats |-> p_rep,
                        penalty_sequences |-> p_seq,
                        penalty_patterns |-> p_pat],
         tips |-> tips(s)]

(***************************************************************************)
(* The inputs: every string of at most MaxLen characters over Alphabet,    *)
(* and every concatenation of at most MaxFrags of Fragments.               *)
(***************************************************************************)
Alphabet == {"a", "A", "1", "!", eacute, space}

Fragments == {
    <<"T", "r", "0", "u", "b", "4", "d", "o", "r", "&", "3", "x", "y", "z", "!">>,
    <<"K">>,
    <<"p", "a", "s", "s", "w", "o", "r", "d">>,
    <<"a", "b", "c", "d", "e", "f", "g", "h">>,
    <<"a", "a", "a", "a", "a", "a", "a", "a">>,
    <<"D", "c", "B", "A">>,
    <<"1", "9", "9", "9">>,
    <<"1", "2", "/", "2", "5">>,
    <<"q", "w", "e", "r", "t", "y">>,
    <<"h", "g", "f", "e", "d">>,
    <<"_", arabic3>> }

RECURSIVE Concat(_)
Concat(fs) == IF fs = <<>> THEN <<>> ELSE Head(fs) \o Concat(Tail(fs))

ShortStrings == UNION {[1..n -> Alphabet] : n \in 0..MaxLen}

Composed == {Concat(fs) : fs \in UNION {[1..n -> Fragments] : n \in 0..MaxFrags}}

Inputs == ShortStrings \cup Composed

NoResult == <<>>

(***************************************************************************)
(* The caller hands one string to score_password and receives its Result.  *)
(***************************************************************************)
Init ==
    /\ pw \in Inputs
    /\ pc = "call"
    /\ result = NoResult

ScorePassword ==
    /\ pc = "call"
    /\ result' = score_password(pw)
    /\ pc' = "done"
    /\ UNCHANGED pw

Next == ScorePassword

Spec == Init /\ [][Next]_vars

(***************************************************************************)
(* Properties of the Result.                                               *)
(***************************************************************************)
Done == pc = "done"

AllFourClasses(s) == has_lower(s) /\ has_upper(s) /\ has_digit(s) /\ has_symbol(s)

NoPenalty(r) ==
    /\ r.breakdown.penalty_repeats = 0
    /\ r.breakdown.penalty_sequences = 0
    /\ r.breakdown.penalty_patterns = 0

EightA == <<"a", "a", "a", "a", "a", "a", "a", "a">>

AbcToH == <<"a", "b", "c", "d", "e", "f", "g", "h">>

Password == <<"p", "a", "s", "s", "w", "o", "r", "d">>

\* C1: for every input, 0 <= score <= 100 and every breakdown field is inside
\* its sub-range: length and variety in 0..30, bonus 0 or 10, penalty_repeats
\* in 0..20, penalty_sequences in 0..12, penalty_patterns in 0..20.
C1_Ranges ==
    Done =>
        /\ result.score \in 0..100
        /\ result.breakdown.length \in 0..30
        /\ result.breakdown.variety \in 0..30
        /\ result.breakdown.bonus \in {0, 10}
        /\ result.breakdown.penalty_repeats \in 0..20
        /\ result.breakdown.penalty_sequences \in 0..12
        /\ result.breakdown.penalty_patterns \in 0..20

\* A Result whose sequence and pattern penalties sit at their caps and whose
\* raw sum is negative, so that the score is clamped to 0.
C1_Witness ==
    /\ Done
    /\ result.breakdown.penalty_sequences = 12
    /\ result.breakdown.penalty_patterns = 20
    /\ result.breakdown.length + result.breakdown.variety
           + result.breakdown.bonus < 32
    /\ result.score = 0

\* C2: the empty string is scored without an exception and gives length,
\* variety, bonus and the three penalties 0, entropy 0.0, score 0 and the
\* label "Very Weak".
C2_Empty ==
    (Done /\ pw = <<>>) =>
        /\ result.raised = "none"
        /\ result.breakdown = [length |-> 0, variety |-> 0, bonus |-> 0,
                               penalty_repeats |-> 0, penalty_sequences |-> 0,
                               penalty_patterns |-> 0]
        /\ result.entropy_bits = 0
        /\ result.score = 0
        /\ result.label = "Very Weak"

C2_Witness == Done /\ pw = <<>> /\ result.label = "Very Weak"

\* C3 as stated: a password of 15 or more characters with all four classes
\* and no repeat, sequence or pattern penalty scores at least 70, in the
\* "Strong" or "Very Strong" tier.
C3_Original ==
    (Done /\ Len(pw) >= 15 /\ AllFourClasses(pw) /\ NoPenalty(result)) =>
        /\ result.score >= 70
        /\ result.label \in {"Strong", "Very Strong"}

\* C3 amended: a password of 16 or more characters with all four classes and
\* no repeat, sequence or pattern penalty scores at least 70, in the "Strong"
\* or "Very Strong" tier.
C3_Amended ==
    (Done /\ Len(pw) >= 16 /\ AllFourClasses(pw) /\ NoPenalty(result)) =>
        /\ result.score >= 70
        /\ result.label \in {"Strong", "Very Strong"}

C3_Witness ==
    /\ Done
    /\ Len(pw) = 16
    /\ AllFourClasses(pw)
    /\ NoPenalty(result)
    /\ result.label = "Strong"

\* The maximal runs of s by their first position: a run starts where the
\* character differs from the one before it and ends before the next start.
RunStarts(s) == {a \in 1..Len(s) : a = 1 \/ s[a - 1] # s[a]}

RunLength(s, a) ==
    CHOOSE n \in 1..(Len(s) - a + 1) :
        /\ \A i \in a..(a + n - 1) : s[i] = s[a]
        /\ a + n - 1 = Len(s) \/ s[a + n] # s[a]

RECURSIVE RunSum(_, _)
RunSum(s, starts) ==
    IF starts = {} THEN 0
    ELSE LET a == CHOOSE x \in starts : TRUE
             n == RunLength(s, a)
         IN  (IF n >= 3 THEN 2 * (n - 2) ELSE 0) + RunSum(s, starts \ {a})

Skewed(s) ==
    /\ s # <<>>
    /\ \E c \in Range(s) :
           10 * Cardinality({i \in DOMAIN s : s[i] = c}) > 4 * Len(s)

\* C4: penalty_repeats = min(20, R + F), R the sum of 2*(L-2) over the maximal
\* runs of length L >= 3 (a run ending at the end of the string included), F
\* = 5 when the string is non-empty and its most frequent character makes up
\* more than 0.4 of it, else 0; "aaaaaaaa" gives 17.
C4_Repeats ==
    Done =>
        /\ result.breakdown.penalty_repeats
               = Min(20, RunSum(pw, RunStarts(pw)) + (IF Skewed(pw) THEN 5 ELSE 0))
        /\ pw = EightA => result.breakdown.penalty_repeats = 17

\* A string that does not start with a run of 3 and ends with one.
C4_Witness ==
    /\ Done
    /\ Len(pw) >= 3
    /\ RunLength(pw, 1) < 3
    /\ pw[Len(pw)] = pw[Len(pw) - 1] /\ pw[Len(pw)] = pw[Len(pw) - 2]
    /\ result.breakdown.penalty_repeats >= 2

Variants == {lowers, uppers, digits, Reverse(lowers), Reverse(uppers), Reverse(digits)}

\* The substrings of s of length 4 to 7.
Windows(s) ==
    {SubSeq(s, jk[1], jk[1] + jk[2] - 1) :
        jk \in {x \in (1..Len(s)) \X (4..7) : x[1] + x[2] - 1 <= Len(s)}}

\* The slices of the variants, of length 4..7, that occur in the case-folded
\* password: the windows of the folded password that are a slice of a
\* variant, per variant.
SlicesPresent(s) ==
    {vw \in Variants \X Windows(lower(s)) : Contains(vw[1], vw[2])}

\* C5: penalty_sequences = min(12, 3*N), N the number of slices of length 4..7
\* of the six variants that occur in the case-folded password, overlapping
\* slices each counted; "abcdefgh" gives 12, a password whose only slice
\* is one of length 4 gives 3.
C5_Sequences ==
    Done =>
        /\ result.breakdown.penalty_sequences
               = Min(12, 3 * Cardinality(SlicesPresent(pw)))
        /\ pw = AbcToH => result.breakdown.penalty_sequences = 12
        /\ pw = <<"D", "c", "B", "A">> => result.breakdown.penalty_sequences = 3

\* A mixed-case password holding exactly one slice, a reversed one.
C5_Witness ==
    /\ Done
    /\ Cardinality(SlicesPresent(pw)) = 1
    /\ Contains(lower(pw), <<"d", "c", "b", "a">>)
    /\ has_upper(pw)
    /\ result.breakdown.penalty_sequences = 3

ListedPresent(s) == {n \in DOMAIN COMMON_PATTERNS : Contains(lower(s), COMMON_PATTERNS[n])}

RowsPresent(s) ==
    {n \in DOMAIN keyboard_rows :
        \/ Contains(lower(s), keyboard_rows[n])
        \/ Contains(lower(s), Reverse(keyboard_rows[n]))}

\* C6: when the case-folded password contains an entry of the common-pattern
\* list, the pattern penalty is at least 6, every listed pattern present adds
\* its 6 once however often it occurs, the total is capped at 20, and the tips
\* include the common-pattern warning.
C6_Patterns ==
    (Done /\ ListedPresent(pw) # {}) =>
        /\ result.breakdown.penalty_patterns >= 6
        /\ result.breakdown.penalty_patterns
               = Min(20, 6 * Cardinality(ListedPresent(pw))
                         + 6 * Cardinality(RowsPresent(pw))
                         + (IF year_match(lower(pw)) THEN 5 ELSE 0)
                         + (IF date_match(lower(pw)) THEN 5 ELSE 0))
        /\ TipPatterns \in Range(result.tips)

\* A password in which a listed pattern occurs twice and counts once.
C6_Witness ==
    /\ Done
    /\ pw = Password \o Password
    /\ result.breakdown.penalty_patterns = 6
    /\ TipPatterns \in Range(result.tips)

\* The character-set size as the documentation gives it: 26, 26, 10 and 32
\* for the classes present.
DocumentedCharset(s) ==
    (IF has_lower(s) THEN 26 ELSE 0)
    + (IF has_upper(s) THEN 26 ELSE 0)
    + (IF has_digit(s) THEN 10 ELSE 0)
    + (IF has_symbol(s) THEN 32 ELSE 0)

\* C7: the character-set size behind the entropy estimate is the sum of 26
\* (lowercase), 26 (uppercase), 10 (digit) and 32 (symbol) over the classes
\* present, and the entropy is 0.0 when no class is present.
C7_Charset ==
    Done =>
        /\ charset(pw) = DocumentedCharset(pw)
        /\ result.entropy_bits = entropy_of(Len(pw), DocumentedCharset(pw))
        /\ DocumentedCharset(pw) = 0 => result.entropy_bits = 0

\* The characters outside the four ASCII classes.
OutsideChars == {space, eacute, arabic3}

InsertAt(s, j, c) == SubSeq(s, 1, j) \o <<c>> \o SubSeq(s, j + 1, Len(s))

\* C8: a character outside the four classes counts toward none: a password
\* made only of such characters has variety 0, entropy 0.0 and all four
\* missing-class tips, and inserting such a character into a password leaves
\* has-lowercase, has-uppercase, has-digit and has-symbol as they were.
C8_Outside ==
    Done =>
        /\ (pw # <<>> /\ Range(pw) \subseteq OutsideChars) =>
               /\ result.breakdown.variety = 0
               /\ result.entropy_bits = 0
               /\ {TipLower, TipUpper, TipDigit, TipSymbol} \subseteq Range(result.tips)
        /\ \A c \in OutsideChars : \A j \in 0..Len(pw) :
               /\ has_lower(InsertAt(pw, j, c)) = has_lower(pw)
               /\ has_upper(InsertAt(pw, j, c)) = has_upper(pw)
               /\ has_digit(InsertAt(pw, j, c)) = has_digit(pw)
               /\ has_symbol(InsertAt(pw, j, c)) = has_symbol(pw)

TipOrder == <<TipLength, TipLower, TipUpper, TipDigit, TipSymbol,
              TipRepeats, TipSequences, TipPatterns>>

\* The condition of each tip, the penalty warnings read off the breakdown of
\* the same Result.
TipHolds(tip) ==
    CASE tip = TipLength -> Len(pw) < 12
      [] tip = TipLower -> ~has_lower(pw)
      [] tip = TipUpper -> ~has_upper(pw)
      [] tip = TipDigit -> ~has_digit(pw)
      [] tip = TipSymbol -> ~has_symbol(pw)
      [] tip = TipRepeats -> result.breakdown.penalty_repeats > 0
      [] tip = TipSequences -> result.breakdown.penalty_sequences > 0
      [] tip = TipPatterns -> result.breakdown.penalty_patterns > 0

\* C9: the tips are the tips whose condition holds, in the fixed order
\* length, lowercase, uppercase, digit, symbol, repeats, sequences, patterns;
\* the list is the single passphrase suggestion exactly when no condition
\* holds, and it is never empty.
C9_Tips ==
    Done =>
        /\ (\E i \in DOMAIN TipOrder : TipHolds(TipOrder[i])) =>
               result.tips = SelectSeq(TipOrder, TipHolds)
        /\ result.tips = <<TipPassphrase>>
               <=> ~ \E i \in DOMAIN TipOrder : TipHolds(TipOrder[i])
        /\ Len(result.tips) >= 1

\* A Result carrying the three penalty warnings, in order, after other tips.
C9_Witness ==
    /\ Done
    /\ Len(result.tips) >= 5
    /\ SubSeq(result.tips, Len(result.tips) - 2, Len(result.tips))
           = <<TipRepeats, TipSequences, TipPatterns>>

====
